---- MODULE Spec2Model ----
(***************************************************************************)
(* Model of MoenchZmqServer.py: the reader task (main / get_msg_pair)      *)
(* which pairs header and payload messages of the subscriber socket, the   *)
(* process pool running processing_func, the manager lock and the shared   *)
(* analog buffer, and the commands and attributes of the Tango device      *)
(* that touch them.                                                        *)
(*                                                                         *)
(* A message of the socket is either a text message, whose bytes are a     *)
(* JSON text (json gives the value json.loads returns), or a binary        *)
(* message, given by its bytes b. Bytes below 0x20 never begin a JSON      *)
(* text, so json.loads raises on every binary message of the model; a      *)
(* JSON text of a header is shorter than a frame, so reshape raises on     *)
(* every text message of the model.                                        *)
(***************************************************************************)
EXTENDS Integers, Sequences, FiniteSets, TLC

\* ---- bounds ----
\* rows of a frame and of a buffer (400 in the source); the frames of the model
\* have one column (400 in the source)
ROWS == 2
\* number of messages the socket delivers in one behaviour
MaxMsgs == 4
\* worker processes of the pool (16 in the source)
PoolSize == 2
\* largest value an external client writes to processed_frames
MaxCounter == 1
\* number of client calls (commands, attribute reads and writes) in one behaviour
MaxCalls == 2
MaxInits == 1

NCells == ROWS
Workers == 1..PoolSize

\* ---- values ----
None == [t |-> "None"]
ndarray(a) == [t |-> "ndarray", a |-> a]

\* a ROWS x 1 grid in row-major order from a flat sequence of NCells values
reshape(flat) == [r \in 1..ROWS |-> <<flat[r]>>]
\* the row and the column of the k-th cell in row-major order
RowOf(k) == k
ColOf(k) == 1

zeros == reshape([k \in 1..NCells |-> 0])

\* ---- messages ----
HeaderWithData(f) == [t |-> "object", data |-> 1, frameIndex |-> f]
HeaderNoData(f) == [t |-> "object", data |-> 0, frameIndex |-> f]
HeaderNoField(f) == [t |-> "object", frameIndex |-> f]
JsonArray == [t |-> "array"]

Text(v) == [kind |-> "text", json |-> v]
Bin(b) == [kind |-> "bin", b |-> b]

\* the bytes of a frame whose k-th sample is k (little-endian uint16)
RampBytes == [i \in 1..(2 * NCells) |-> IF i % 2 = 1 THEN (i + 1) \div 2 ELSE 0]
\* the bytes of a frame whose samples are all 256
HighBytes == [i \in 1..(2 * NCells) |-> IF i % 2 = 1 THEN 0 ELSE 1]
\* one sample only: an even number of bytes, but not a whole frame
ShortBytes == <<1, 0>>

\* the messages the socket delivers: a header announcing data, a header
\* announcing none, a record without the key "data", a JSON value that is
\* no record, two whole frames and a truncated one
Messages ==
    {Text(HeaderWithData(1)), Text(HeaderNoData(2)), Text(HeaderNoField(3)),
     Text(JsonArray), Bin(RampBytes), Bin(HighBytes), Bin(ShortBytes)}

VARIABLES
    nrecv,                   \* number of messages _socket.recv() has returned
    main_pc,                 \* where the task main is suspended, or "CRASHED"
    header,                  \* get_msg_pair's local header while it awaits packet2
    packet1,                 \* get_msg_pair's local packet1 of the last call
    packet2,                 \* get_msg_pair's local packet2 of the last call; None
                             \* when the call received none or raised on it
    emitted,                 \* what get_msg_pair has returned to main, in order
    submitted,               \* the jobs main has submitted to _process_pool, in order
    queue,                   \* the pool's pending jobs (indexes into submitted)
    status,                  \* per submitted job: queued, running, done or failed
    taken,                   \* per submitted job: how often a worker started it
    w_pc,                    \* per worker: idle, enter (before acquire) or locked
    w_job,                   \* per worker: the job it runs (0 when idle)
    w_k,                     \* per worker: cells of buf_array += payload done
    lock,                    \* _lock: TRUE when acquired
    analog,                  \* the array in shared_memory_analog_img
    pedestal,                \* the array in shared_memory_pedestal
    threshold_img,           \* the array in shared_memory_threshold_img
    counting_img,            \* the array in shared_memory_counting_img
    shared_threshold,
    shared_counting_threshold,
    shared_server_running,
    shared_processed_frames,
    last_read,               \* what the last read_analog_img returned
    stop_inflight,           \* the jobs pending or running at the stop_receiver in force
    calls,                   \* number of client calls so far
    dev_state,               \* the Tango state of the device
    resets,                  \* number of write_analog_img calls so far
    inits,                   \* number of Init commands (delete_device, init_device)
    old_pc,                  \* the main task of the previous init_device
    old_header,
    old_socket               \* the socket its next recv is made on

vars == <<nrecv, main_pc, header, packet1, packet2, emitted, submitted, queue, status, taken,
          w_pc, w_job, w_k, lock, analog, pedestal, threshold_img, counting_img,
          shared_threshold, shared_counting_threshold, shared_server_running,
          shared_processed_frames, last_read, stop_inflight, calls, dev_state, resets,
          inits, old_pc, old_header, old_socket>>

readerVars == <<nrecv, main_pc, header, packet1, packet2, emitted>>
poolVars == <<submitted, queue, status, taken>>
workerVars == <<w_pc, w_job, w_k, lock, analog>>
otherVars == <<pedestal, threshold_img, counting_img, shared_threshold,
               shared_counting_threshold>>
oldTaskVars == <<old_pc, old_header, old_socket>>
sessionVars == <<dev_state, resets, inits, oldTaskVars>>
deviceVars == <<shared_server_running, shared_processed_frames, last_read, calls,
                otherVars, stop_inflight, sessionVars>>

\* ---- get_msg_pair ----
\* json.loads(packet1) raises: the bytes are no JSON text
LoadsRaises(m) == m.kind # "text"
\* json.loads(packet1)
json_loads(m) == m.json

\* header.get("data") on a value that is no dict answers None instead of raising
GetRaises_quiet(v) == FALSE

\* header.get("data") raises AttributeError: the value is no dict
GetRaises(v) == v.t # "object"
\* header.get("data"): the value of the key, or None
dict_get_data(v) == IF "data" \in DOMAIN v THEN [t |-> "int", v |-> v.data] ELSE None

\* the except branch of get_msg_pair is taken
ParseRaises(m) == LoadsRaises(m) \/ GetRaises(json_loads(m))

\* the local header after the try statement: assigned by json.loads even when
\* header.get raises afterwards
header_after_try(m) == IF LoadsRaises(m) THEN None ELSE json_loads(m)

\* the except branch leaves isNextPacketData at its initial value True
isNextPacketData_unreset(m) ==
    IF ParseRaises(m) THEN TRUE
    ELSE dict_get_data(json_loads(m)) = [t |-> "int", v |-> 1]

\* the local isNextPacketData after the try statement
isNextPacketData(m) ==
    IF ParseRaises(m) THEN FALSE
    ELSE dict_get_data(json_loads(m)) = [t |-> "int", v |-> 1]

\* what the try statement prints last
report(m) == IF ParseRaises(m) THEN "is not header" ELSE "isNextPacketdata"

\* np.frombuffer(packet2, dtype=np.uint16).reshape((400, 400)) raises ValueError
frombuffer_raises(m) ==
    \/ m.kind = "text"
    \/ Len(m.b) % 2 # 0
    \/ Len(m.b) \div 2 # NCells

\* the samples read with the high byte first
frombuffer_reshape_be(m) ==
    reshape([k \in 1..NCells |-> 256 * m.b[2 * k - 1] + m.b[2 * k]])

\* the uint16 samples of the bytes, little-endian, as a grid
frombuffer_reshape(m) ==
    reshape([k \in 1..NCells |-> m.b[2 * k - 1] + 256 * m.b[2 * k]])

\* ---- main ----
Job(h, p) == [header |-> h, payload |-> p]

\* a submit that loses the job
pool_submit_drop(q, j) == q

\* a submit that puts the job in front of the pending ones
pool_submit_front(q, j) == <<j>> \o q

\* _process_pool.submit: the job is appended to the pool's pending work
pool_submit(q, j) == Append(q, j)

\* the body of main's loop after get_msg_pair has returned (h, p)
main_body(h, p) ==
    IF p # None
    THEN /\ submitted' = Append(submitted, Job(h, p))
         /\ queue' = pool_submit(queue, Len(submitted) + 1)
         /\ status' = Append(status, "queued")
         /\ taken' = Append(taken, 0)
    ELSE UNCHANGED poolVars

\* one return of get_msg_pair: the pair it returns, the number of messages it
\* received and what its try statement printed last
Emission(h, p, n, rep) ==
    [header |-> h, payload |-> p, n |-> n, report |-> rep]

\* main resumes from the first recv of get_msg_pair with message m and runs
\* to its next await
RecvPacket1(m) ==
    /\ main_pc = "AWAIT_HEADER"
    /\ nrecv < MaxMsgs
    /\ nrecv' = nrecv + 1
    /\ packet1' = m
    /\ packet2' = None
    /\ IF isNextPacketData(m)
       THEN /\ main_pc' = "AWAIT_PAYLOAD"
            /\ header' = header_after_try(m)
            /\ UNCHANGED <<emitted, poolVars>>
       ELSE /\ main_pc' = "AWAIT_HEADER"
            /\ header' = None
            /\ emitted' = Append(emitted,
                   Emission(header_after_try(m), None, 1, report(m)))
            /\ main_body(header_after_try(m), None)
    /\ UNCHANGED <<workerVars, deviceVars>>

\* main resumes from the second recv of get_msg_pair with message m; a
\* ValueError of frombuffer or reshape leaves get_msg_pair and main, which
\* has no handler, and ends the task
RecvPacket2(m) ==
    /\ main_pc = "AWAIT_PAYLOAD"
    /\ nrecv < MaxMsgs
    /\ nrecv' = nrecv + 1
    /\ header' = None
    /\ UNCHANGED packet1
    /\ IF frombuffer_raises(m)
       THEN /\ main_pc' = "CRASHED"
            /\ packet2' = None
            /\ UNCHANGED <<emitted, poolVars>>
       ELSE /\ main_pc' = "AWAIT_HEADER"
            /\ packet2' = m
            /\ emitted' = Append(emitted,
                   Emission(header, ndarray(frombuffer_reshape(m)), 2, report(packet1)))
            /\ main_body(header, ndarray(frombuffer_reshape(m)))
    /\ UNCHANGED <<workerVars, deviceVars>>

\* ---- the pool and processing_func ----
\* an idle worker process takes the oldest pending job and calls processing_func;
\* the worker processes are interchangeable, the lowest idle one stands for
\* whichever of them gets the job
pool_take(w) ==
    /\ w_pc[w] = "idle"
    /\ \A v \in Workers : v < w => w_pc[v] # "idle"
    /\ queue # <<>>
    /\ queue' = Tail(queue)
    /\ w_job' = [w_job EXCEPT ![w] = Head(queue)]
    /\ w_pc' = [w_pc EXCEPT ![w] = "enter"]
    /\ status' = [status EXCEPT ![Head(queue)] = "running"]
    /\ taken' = [taken EXCEPT ![Head(queue)] = @ + 1]
    /\ UNCHANGED <<readerVars, submitted, w_k, lock, analog, deviceVars>>

\* an acquire that never waits
lock_free_always(l) == TRUE

\* lock.acquire() returns only when the lock is free
lock_free(l) == l = FALSE

processing_func_acquire(w) ==
    /\ w_pc[w] = "enter"
    /\ lock_free(lock)
    /\ lock' = TRUE
    /\ w_pc' = [w_pc EXCEPT ![w] = "locked"]
    /\ w_k' = [w_k EXCEPT ![w] = 0]
    /\ UNCHANGED <<readerVars, poolVars, w_job, analog, deviceVars>>

\* buf_array = payload instead of buf_array += payload, for the k-th cell
iadd_cell_store(buf, p, k) ==
    [buf EXCEPT ![RowOf(k)][ColOf(k)] = p[RowOf(k)][ColOf(k)]]

\* buf_array += payload, for the k-th cell
iadd_cell(buf, p, k) ==
    [buf EXCEPT ![RowOf(k)][ColOf(k)] = @ + p[RowOf(k)][ColOf(k)]]

\* main passes another of the four shared memories
main_shared_memory_pedestal == "pedestal"

\* the shared memory main passes to processing_func
main_shared_memory == "analog_img"

\* the array of shared memory name after buf_array += payload on buf, cell k,
\* when the job was given the shared memory target
after_iadd(name, target, buf, p, k) ==
    IF name = target THEN iadd_cell(buf, p, k) ELSE buf

\* buf_array += payload stores one cell after the other into the shared memory
\* the job was given
processing_func_add(w) ==
    /\ w_pc[w] = "locked"
    /\ w_k[w] < NCells
    /\ LET p == submitted[w_job[w]].payload.a
           k == w_k[w] + 1
       IN /\ analog' = after_iadd("analog_img", main_shared_memory, analog, p, k)
          /\ pedestal' = after_iadd("pedestal", main_shared_memory, pedestal, p, k)
          /\ threshold_img' =
                 after_iadd("threshold_img", main_shared_memory, threshold_img, p, k)
          /\ counting_img' =
                 after_iadd("counting_img", main_shared_memory, counting_img, p, k)
    /\ w_k' = [w_k EXCEPT ![w] = @ + 1]
    /\ UNCHANGED <<readerVars, poolVars, w_pc, w_job, lock, shared_server_running,
                   shared_processed_frames, last_read, calls, shared_threshold,
                   shared_counting_threshold, stop_inflight, sessionVars>>

\* lock.release() and the return of processing_func
processing_func_release(w) ==
    /\ w_pc[w] = "locked"
    /\ w_k[w] = NCells
    /\ lock' = FALSE
    /\ w_pc' = [w_pc EXCEPT ![w] = "idle"]
    /\ w_job' = [w_job EXCEPT ![w] = 0]
    /\ w_k' = [w_k EXCEPT ![w] = 0]
    /\ status' = [status EXCEPT ![w_job[w]] = "done"]
    /\ UNCHANGED <<readerVars, submitted, queue, taken, analog, deviceVars>>

\* a statement of processing_func raises (print on a closed stdout, MemoryError,
\* KeyboardInterrupt in the worker): the function has no try statement, the
\* exception leaves it at once and the pool stores it in the job's future
processing_func_raise(w) ==
    /\ w_pc[w] \in {"enter", "locked"}
    /\ w_pc' = [w_pc EXCEPT ![w] = "idle"]
    /\ w_job' = [w_job EXCEPT ![w] = 0]
    /\ w_k' = [w_k EXCEPT ![w] = 0]
    /\ status' = [status EXCEPT ![w_job[w]] = "failed"]
    /\ UNCHANGED <<readerVars, submitted, queue, taken, lock, analog, deviceVars>>

\* ---- commands and attributes ----
\* a write of the flag that also clears the frame counter
write_server_running_clear(value) ==
    /\ shared_server_running' = (IF value THEN 1 ELSE 0)
    /\ shared_processed_frames' = 0

\* self.shared_server_running.value = int(value), and nothing else
write_server_running(value) ==
    /\ shared_server_running' = (IF value THEN 1 ELSE 0)
    /\ UNCHANGED shared_processed_frames

start_receiver ==
    /\ calls < MaxCalls
    /\ calls' = calls + 1
    /\ write_server_running(TRUE)
    /\ stop_inflight' = {}
    /\ UNCHANGED <<readerVars, poolVars, workerVars, last_read, otherVars,
                   sessionVars>>

\* the jobs submitted and not yet over
InFlight == {j \in 1..Len(submitted) : status[j] \in {"queued", "running"}}

\* a stop that also cancels the pending jobs of the pool
stop_receiver_cancel ==
    /\ calls < MaxCalls
    /\ calls' = calls + 1
    /\ write_server_running(FALSE)
    /\ stop_inflight' = InFlight
    /\ queue' = <<>>
    /\ UNCHANGED <<readerVars, submitted, status, taken, workerVars, last_read,
                   otherVars, sessionVars>>

stop_receiver ==
    /\ calls < MaxCalls
    /\ calls' = calls + 1
    /\ write_server_running(FALSE)
    /\ stop_inflight' = InFlight
    /\ UNCHANGED <<readerVars, poolVars, workerVars, last_read, otherVars,
                   sessionVars>>

write_processed_frames(value) ==
    /\ calls < MaxCalls
    /\ calls' = calls + 1
    /\ shared_processed_frames' = value
    /\ UNCHANGED <<readerVars, poolVars, workerVars, shared_server_running, last_read,
                   otherVars, stop_inflight, sessionVars>>

\* a flip that returns the array as it is
flipud_same(a) == a

\* np.flipud
flipud(a) == [r \in 1..ROWS |-> a[ROWS + 1 - r]]

\* the array over the shared memory, flipped or not; no lock is taken
read_shared_array(buf, flip) == IF flip THEN flipud(buf) ELSE buf

read_analog_img(flip) ==
    /\ calls < MaxCalls
    /\ calls' = calls + 1
    /\ last_read' = [t |-> "ndarray", flip |-> flip, a |-> read_shared_array(analog, flip)]
    /\ UNCHANGED <<readerVars, poolVars, workerVars, shared_server_running,
                   shared_processed_frames, otherVars, stop_inflight, sessionVars>>

\* ---- specification ----
\* the state init_device leaves: fresh shared memory is zero-filled
\* ---- failures of the transport, writes of an image, a second init_device ----
\* await self._socket.recv() raises (the context is terminated, the socket is
\* closed): neither get_msg_pair nor main has a handler, the task ends; nothing
\* writes shared_server_running or the device state
recv_raises ==
    /\ main_pc \in {"AWAIT_HEADER", "AWAIT_PAYLOAD"}
    /\ main_pc' = "RECV_FAILED"
    /\ UNCHANGED <<nrecv, header, packet1, packet2, emitted, poolVars, workerVars,
                   deviceVars>>

\* self.shared_analog_img.value = value: the device has no attribute
\* shared_analog_img (init_device creates shared_memory_analog_img), the
\* statement raises AttributeError; no lock is taken and no cell is written
write_analog_img ==
    /\ calls < MaxCalls
    /\ calls' = calls + 1
    /\ resets' = resets + 1
    /\ UNCHANGED <<readerVars, poolVars, workerVars, shared_server_running,
                   shared_processed_frames, last_read, otherVars, stop_inflight,
                   dev_state, inits, oldTaskVars>>

\* the tasks that are suspended in a recv
Awaiting == {"AWAIT_HEADER", "AWAIT_PAYLOAD"}

\* the Init command: delete_device, then init_device.  delete_device waits for
\* the jobs of the pool and shuts the managers down; it neither cancels the
\* main task nor closes the socket.  init_device makes a new lock, new Values,
\* new shared memories, a new pool and a new socket, and creates a second main
\* task.  The earlier task stays suspended in its recv on the earlier socket.
init_device ==
    /\ inits < MaxInits
    /\ calls < MaxCalls
    /\ calls' = calls + 1
    /\ queue = <<>>
    /\ \A w \in Workers : w_pc[w] = "idle"
    /\ inits' = inits + 1
    /\ old_pc' = main_pc
    /\ old_header' = header
    /\ old_socket' = (IF main_pc \in Awaiting THEN "EARLIER" ELSE "NONE")
    /\ main_pc' = "AWAIT_HEADER"
    /\ header' = None
    /\ packet1' = None
    /\ packet2' = None
    /\ emitted' = <<>>
    /\ submitted' = <<>>
    /\ queue' = <<>>
    /\ status' = <<>>
    /\ taken' = <<>>
    /\ lock' = FALSE
    /\ analog' = zeros
    /\ pedestal' = zeros
    /\ threshold_img' = zeros
    /\ counting_img' = zeros
    /\ shared_threshold' = 0
    /\ shared_counting_threshold' = 0
    /\ shared_server_running' = 0
    /\ shared_processed_frames' = 0
    /\ last_read' = None
    /\ stop_inflight' = {}
    /\ dev_state' = "ON"
    /\ UNCHANGED <<nrecv, w_pc, w_job, w_k, resets>>

\* the recv of the earlier task: the one it was suspended in completes on the
\* earlier socket, every later one is self._socket.recv() on the socket of
\* the last init_device, the one the new task reads
old_recv ==
    /\ old_socket' = "CURRENT"
    /\ IF old_socket = "CURRENT"
       THEN /\ nrecv < MaxMsgs
            /\ nrecv' = nrecv + 1
       ELSE UNCHANGED nrecv

\* the earlier task resumes from the first recv of get_msg_pair (emitted keeps
\* the returns of the task of the last init_device only)
OldRecvPacket1(m) ==
    /\ old_pc = "AWAIT_HEADER"
    /\ old_recv
    /\ IF isNextPacketData(m)
       THEN /\ old_pc' = "AWAIT_PAYLOAD"
            /\ old_header' = header_after_try(m)
            /\ UNCHANGED poolVars
       ELSE /\ old_pc' = "AWAIT_HEADER"
            /\ old_header' = None
            /\ main_body(header_after_try(m), None)
    /\ UNCHANGED <<main_pc, header, packet1, packet2, emitted, workerVars,
                   shared_server_running, shared_processed_frames, last_read, calls,
                   otherVars, stop_inflight, dev_state, resets, inits>>

\* the earlier task resumes from the second recv of get_msg_pair and submits
\* to self._process_pool, the pool of the last init_device
OldRecvPacket2(m) ==
    /\ old_pc = "AWAIT_PAYLOAD"
    /\ old_recv
    /\ old_header' = None
    /\ IF frombuffer_raises(m)
       THEN /\ old_pc' = "CRASHED"
            /\ UNCHANGED poolVars
       ELSE /\ old_pc' = "AWAIT_HEADER"
            /\ main_body(old_header, ndarray(frombuffer_reshape(m)))
    /\ UNCHANGED <<main_pc, header, packet1, packet2, emitted, workerVars,
                   shared_server_running, shared_processed_frames, last_read, calls,
                   otherVars, stop_inflight, dev_state, resets, inits>>

Init ==
    /\ nrecv = 0
    /\ main_pc = "AWAIT_HEADER"
    /\ header = None
    /\ packet1 = None
    /\ packet2 = None
    /\ emitted = <<>>
    /\ submitted = <<>>
    /\ queue = <<>>
    /\ status = <<>>
    /\ taken = <<>>
    /\ w_pc = [w \in Workers |-> "idle"]
    /\ w_job = [w \in Workers |-> 0]
    /\ w_k = [w \in Workers |-> 0]
    /\ lock = FALSE
    /\ analog = zeros
    /\ pedestal = zeros
    /\ threshold_img = zeros
    /\ counting_img = zeros
    /\ shared_threshold = 0
    /\ shared_counting_threshold = 0
    /\ shared_server_running = 0
    /\ shared_processed_frames = 0
    /\ last_read = None
    /\ stop_inflight = {}
    /\ calls = 0
    /\ dev_state = "ON"
    /\ resets = 0
    /\ inits = 0
    /\ old_pc = "NONE"
    /\ old_header = None
    /\ old_socket = "NONE"

Next ==
    \/ \E m \in Messages : RecvPacket1(m)
    \/ \E m \in Messages : RecvPacket2(m)
    \/ \E w \in Workers : pool_take(w)
    \/ \E w \in Workers : processing_func_acquire(w)
    \/ \E w \in Workers : processing_func_add(w)
    \/ \E w \in Workers : processing_func_release(w)
    \/ \E w \in Workers : processing_func_raise(w)
    \/ start_receiver
    \/ stop_receiver
    \/ \E v \in 0..MaxCounter : write_processed_frames(v)
    \/ \E flip \in BOOLEAN : read_analog_img(flip)

Spec == Init /\ [][Next]_vars

\* the device on a transport whose recv can fail
NextTransport ==
    \/ Next
    \/ recv_raises

SpecTransport == Init /\ [][NextTransport]_vars

\* the device with clients that write the analog image
NextWrites ==
    \/ Next
    \/ write_analog_img

SpecWrites == Init /\ [][NextWrites]_vars

\* the device with clients that send the Init command
NextInit ==
    \/ Next
    \/ init_device
    \/ \E m \in Messages : OldRecvPacket1(m)
    \/ \E m \in Messages : OldRecvPacket2(m)

SpecInit == Init /\ [][NextInit]_vars

\* the operating system schedules every worker process again and again and
\* a waiting lock.acquire() is served when the lock is free often enough; no
\* fairness holds for the socket, the clients or an exception in a worker
Fairness ==
    \A w \in Workers :
        /\ WF_vars(pool_take(w))
        /\ SF_vars(processing_func_acquire(w))
        /\ WF_vars(processing_func_add(w))
        /\ WF_vars(processing_func_release(w))

FairSpec == Spec /\ Fairness

\* ---- properties ----
Last(seq) == seq[Len(seq)]

\* the element-wise sum of two grids
GridAdd(a, b) == [r \in 1..ROWS |-> [c \in DOMAIN a[r] |-> a[r][c] + b[r][c]]]

\* the element-wise sum of the frames of the jobs J of submitted
RECURSIVE FrameSum(_)
FrameSum(J) ==
    IF J = {} THEN zeros
    ELSE LET j == CHOOSE x \in J : TRUE
         IN GridAdd(submitted[j].payload.a, FrameSum(J \ {j}))

Jobs == 1..Len(submitted)
JobsIn(st) == {j \in Jobs : status[j] = st}

\* the message is a JSON record whose key "data" holds 1
AnnouncesData(m) ==
    /\ m.kind = "text"
    /\ m.json.t = "object"
    /\ "data" \in DOMAIN m.json
    /\ m.json.data = 1

\* the message is a JSON record with a key "data"
RecordWithDataField(m) ==
    /\ m.kind = "text"
    /\ m.json.t = "object"
    /\ "data" \in DOMAIN m.json

\* the message is a JSON record
Record(m) == m.kind = "text" /\ m.json.t = "object"

RECURSIVE SumN(_)
SumN(es) == IF es = <<>> THEN 0 ELSE Head(es).n + SumN(Tail(es))

\* get_msg_pair has returned and its last return is the last element of emitted
CycleComplete == main_pc = "AWAIT_HEADER" /\ emitted # <<>>

\* C1: get_msg_pair returns a frame only in a cycle whose first message is a
\* header announcing data, and a cycle whose first message is no such header
\* receives that one message only and returns no frame.
C1_FrameOnlyAfterDataHeader ==
    /\ \A i \in DOMAIN emitted :
         /\ emitted[i].payload # None =>
               /\ emitted[i].header.t = "object"
               /\ "data" \in DOMAIN emitted[i].header
               /\ emitted[i].header.data = 1
               /\ emitted[i].n = 2
         /\ emitted[i].payload = None => emitted[i].n = 1
    /\ nrecv = SumN(emitted)
                 + (IF main_pc = "AWAIT_PAYLOAD" THEN 1 ELSE 0)
                 + (IF main_pc = "CRASHED" THEN 2 ELSE 0)
    /\ CycleComplete =>
         /\ Last(emitted).payload # None => AnnouncesData(packet1)
         /\ ~AnnouncesData(packet1) =>
               Last(emitted).payload = None /\ Last(emitted).n = 1
    /\ main_pc = "AWAIT_PAYLOAD" => AnnouncesData(packet1)

\* three headers without data have given three returns without a frame
C1_Witness ==
    /\ nrecv = 3
    /\ Len(emitted) = 3
    /\ \A i \in 1..3 :
         emitted[i].header = HeaderNoData(2) /\ emitted[i].payload = None

\* C2: from the zeroed buffer, once every submitted job has finished the analog
\* buffer is the element-wise sum of the frames of all submitted jobs.
C2_SumOfFrames ==
    (Jobs # {} /\ JobsIn("done") = Jobs) => analog = FrameSum(Jobs)

\* two jobs with different frames have both finished
C2_Witness ==
    /\ Len(submitted) = 2
    /\ JobsIn("done") = Jobs
    /\ submitted[1].payload # submitted[2].payload

LockHolders == {w \in Workers : w_pc[w] = "locked"}

\* C3: at most one worker is between acquire and release, it holds the lock,
\* and the analog buffer changes only by a step of that worker.
C3_MutualExclusion ==
    /\ [](Cardinality(LockHolders) <= 1 /\ (LockHolders # {} => lock))
    /\ [][analog' # analog =>
            \E w \in LockHolders : lock /\ w_k'[w] = w_k[w] + 1]_vars

\* one worker is in the middle of its update while another waits for the lock
C3_Witness ==
    \E w, v \in Workers :
        /\ w_pc[w] = "locked" /\ w_k[w] = 1
        /\ w_pc[v] = "enter"

\* C4: after a job has failed no worker is between acquire and release, and
\* the lock is free again.
C4_LockFreeAfterFailure ==
    (JobsIn("failed") # {} /\ LockHolders = {}) => lock = FALSE

\* C5: a read of the analog buffer returns the buffer with each update applied
\* to all cells or to none: the sum of the frames of a set of jobs.
C5_ReadNeverTorn ==
    last_read # None =>
        \E J \in SUBSET Jobs :
            last_read.a = read_shared_array(FrameSum(J), last_read.flip)

\* C6: a payload message of the wrong length does not end the reader.
C6_ReaderSurvivesBadPayload == main_pc \in {"AWAIT_HEADER", "AWAIT_PAYLOAD"}

\* C7 as stated: a first message that is not a record with a has-data field is
\* reported as "is not header", gives no frame and costs one message.
C7_NoDataFieldReported ==
    (CycleComplete /\ ~RecordWithDataField(packet1)) =>
        /\ Last(emitted).report = "is not header"
        /\ Last(emitted).payload = None
        /\ Last(emitted).n = 1

\* C7 as amended: a first message that is not a JSON record is reported as
\* "is not header"; a record without the key "data" is not reported; both give
\* no frame and cost one message; and after a reported message, a header
\* announcing data and a whole frame, exactly one frame has been returned, with
\* that header, and one job has been submitted.
C7_NotAHeader ==
    /\ (CycleComplete /\ ~Record(packet1)) =>
         /\ Last(emitted).report = "is not header"
         /\ Last(emitted).payload = None
         /\ Last(emitted).n = 1
    /\ (CycleComplete /\ Record(packet1) /\ ~RecordWithDataField(packet1)) =>
         /\ Last(emitted).report # "is not header"
         /\ Last(emitted).payload = None
         /\ Last(emitted).n = 1
    /\ (/\ nrecv = 3
        /\ main_pc = "AWAIT_HEADER"
        /\ emitted # <<>>
        /\ emitted[1].report = "is not header"
        /\ AnnouncesData(packet1)) =>
         /\ Len(emitted) = 2
         /\ emitted[1].payload = None
         /\ emitted[2].payload # None
         /\ emitted[2].header = json_loads(packet1)
         /\ Len(submitted) = 1
         /\ submitted[1] = Job(emitted[2].header, emitted[2].payload)

\* undecodable bytes, then a header announcing data, then a whole frame
C7_Witness ==
    /\ nrecv = 3
    /\ Len(emitted) = 2
    /\ emitted[1].header = None
    /\ emitted[1].report = "is not header"
    /\ emitted[2].header = HeaderWithData(1)
    /\ emitted[2].payload # None

\* C8: without any client call, processed_frames is the number of jobs that
\* completed successfully.
C8_CounterCountsCompletions ==
    calls = 0 => shared_processed_frames = Cardinality(JobsIn("done"))

\* C9: a job is submitted only while the running flag is set.
C9_NoSubmitWhenStopped ==
    [][Len(submitted') > Len(submitted) => shared_server_running = 1]_vars

\* the returns of get_msg_pair that carry a frame, in order
RECURSIVE WithFrame(_)
WithFrame(es) ==
    IF es = <<>> THEN <<>>
    ELSE IF Head(es).payload # None
         THEN <<Job(Head(es).header, Head(es).payload)>> \o WithFrame(Tail(es))
         ELSE WithFrame(Tail(es))

\* the number of times job j occurs in the pool's pending work
InQueue(j) == Cardinality({i \in DOMAIN queue : queue[i] = j})
RunningOn(j) == {w \in Workers : w_job[w] = j}

\* C10: the submitted jobs are the returned (header, frame) pairs, each once
\* and in order; a job is pending once, or run by one worker, or over, and no
\* job is started twice.
C10_ExactlyOnce ==
    /\ submitted = WithFrame(emitted)
    /\ \A j \in Jobs :
         /\ taken[j] <= 1
         /\ status[j] = "queued" =>
               InQueue(j) = 1 /\ RunningOn(j) = {} /\ taken[j] = 0
         /\ status[j] = "running" =>
               InQueue(j) = 0 /\ Cardinality(RunningOn(j)) = 1 /\ taken[j] = 1
         /\ status[j] \in {"done", "failed"} =>
               InQueue(j) = 0 /\ RunningOn(j) = {} /\ taken[j] = 1

\* two frames were returned; the first job is over while the second is pending
C10_Witness ==
    /\ Len(submitted) = 2
    /\ status[1] = "done"
    /\ status[2] = "queued"

\* C11: under fair scheduling every job accepted by the pool is eventually
\* over: it has added its frame and released the lock, or it has failed.
C11_EveryJobEventuallyOver ==
    \A j \in 1..(MaxMsgs \div 2) :
        (j \in Jobs) ~> (j \in Jobs /\ status[j] \in {"done", "failed"})

\* C12: a job is submitted in the step in which main receives its payload, and
\* it becomes the last of the submitted jobs and the last of the pool's pending
\* jobs: the jobs reach the pool in the order their payloads were received.
C12_SubmittedInReceiveOrder ==
    [][submitted' # submitted =>
          /\ nrecv' = nrecv + 1
          /\ main_pc = "AWAIT_PAYLOAD"
          /\ Len(submitted') = Len(submitted) + 1
          /\ SubSeq(submitted', 1, Len(submitted)) = submitted
          /\ queue' = Append(queue, Len(submitted'))]_vars

\* two jobs are pending, the one received first in front
C12_Witness ==
    /\ Len(submitted) = 2
    /\ queue = <<1, 2>>
    /\ submitted[1].payload # submitted[2].payload

\* C14 as stated: no step lowers processed_frames.
C14_NeverDecreases ==
    [][shared_processed_frames' >= shared_processed_frames]_vars

\* C14 as amended: processed_frames is lowered only by a client writing the
\* attribute, a step that changes nothing but the counter; no step of the
\* reader, of a worker or of start_receiver and stop_receiver lowers it.
C14_LoweredOnlyByWrite ==
    [][shared_processed_frames' < shared_processed_frames =>
          /\ calls' = calls + 1
          /\ UNCHANGED <<readerVars, poolVars, workerVars, shared_server_running,
                         last_read>>]_vars

\* the counter holds a written value while a job has completed and the
\* receiver was started
C14_Witness ==
    /\ shared_processed_frames = 1
    /\ shared_server_running = 1
    /\ JobsIn("done") # {}

\* C17: a read returns the stored rows in reverse order when flip is set and
\* the stored grid otherwise, and leaves the stored buffer as it is.
C17_ReadFlip ==
    [][last_read' # last_read =>
          /\ analog' = analog
          /\ IF last_read'.flip
             THEN \A r \in 1..ROWS : last_read'.a[r] = analog[ROWS + 1 - r]
             ELSE last_read'.a = analog]_vars

\* a flipped read of a buffer whose rows differ
C17_Witness ==
    /\ last_read # None
    /\ last_read.flip
    /\ last_read.a[1] = analog[ROWS]
    /\ last_read.a[ROWS] = analog[1]
    /\ analog[1] # analog[ROWS]
    /\ LockHolders = {}

\* C18: a cycle whose first message announces data receives exactly one more
\* message and returns the header of the first message with the frame whose
\* samples are the little-endian 16-bit values of the second; while the cycle
\* waits for the payload it holds the header of the message just received.
C18_PairsHeaderWithNextMessage ==
    /\ main_pc = "AWAIT_PAYLOAD" =>
         /\ header = packet1.json
         /\ nrecv = SumN(emitted) + 1
    /\ (CycleComplete /\ AnnouncesData(packet1)) =>
         /\ Last(emitted).n = 2
         /\ nrecv = SumN(emitted)
         /\ Last(emitted).header = packet1.json
         /\ packet2 # None
         /\ packet2.kind = "bin"
         /\ Len(packet2.b) = 2 * NCells
         /\ Last(emitted).payload # None
         /\ \A r \in 1..ROWS :
              Last(emitted).payload.a[r] = <<packet2.b[2 * r - 1] + 256 * packet2.b[2 * r]>>

\* two header and frame pairs in a row, the second frame with samples of 256
C18_Witness ==
    /\ nrecv = 4
    /\ Len(emitted) = 2
    /\ emitted[1].n = 2
    /\ CycleComplete
    /\ AnnouncesData(packet1)
    /\ packet2 = Bin(HighBytes)
    /\ emitted[2].payload # emitted[1].payload

\* C19: a step of the reader or of a worker leaves the pedestal, threshold
\* and counting buffers, the two threshold settings and the running flag as
\* they are, and changes the analog buffer only by adding one raw sample of
\* the frame of the job that holds the lock.
C19_OnlyAnalogChanges ==
    [][calls' = calls =>
          /\ UNCHANGED <<pedestal, threshold_img, counting_img, shared_threshold,
                         shared_counting_threshold, shared_server_running>>
          /\ analog' # analog =>
                \E w \in LockHolders :
                    /\ w_k[w] < NCells
                    /\ \A r \in 1..ROWS :
                         analog'[r][1] =
                             IF r = w_k[w] + 1
                             THEN analog[r][1] + submitted[w_job[w]].payload.a[r][1]
                             ELSE analog[r][1]]_vars

\* a job has added its frame: the analog buffer holds it, the others are zero
C19_Witness ==
    /\ Len(submitted) = 1
    /\ JobsIn("done") = Jobs
    /\ analog = submitted[1].payload.a
    /\ analog # zeros
    /\ pedestal = zeros /\ threshold_img = zeros /\ counting_img = zeros

\* the part of its frame the worker holding the lock has added so far
PartialOf(w) ==
    [r \in 1..ROWS |->
        <<IF r <= w_k[w] THEN submitted[w_job[w]].payload.a[r][1] ELSE 0>>]

RECURSIVE PartialSum(_)
PartialSum(W) ==
    IF W = {} THEN zeros
    ELSE LET w == CHOOSE x \in W : TRUE
         IN GridAdd(PartialOf(w), PartialSum(W \ {w}))

\* C13: a stop_receiver issued while jobs are pending or running leaves the
\* pool, the workers and the buffer as they are; a worker holding the lock can
\* always take its next step, whatever the running flag; and while no job has
\* failed the buffer holds the whole frame of every finished job and the cells
\* added so far by the job holding the lock.
C13_StopKeepsJobsInFlight ==
    /\ [][(stop_inflight' # stop_inflight
            \/ (shared_server_running = 1 /\ shared_server_running' = 0)) =>
              UNCHANGED <<readerVars, poolVars, workerVars, otherVars>>]_vars
    /\ [](\A w \in LockHolders :
              ENABLED (processing_func_add(w) \/ processing_func_release(w)))
    /\ [](JobsIn("failed") = {} =>
              analog = GridAdd(FrameSum(JobsIn("done")), PartialSum(LockHolders)))

\* a job that was running or pending when stop_receiver was issued has finished
\* while the flag is still cleared
C13_Witness ==
    /\ shared_server_running = 0
    /\ \E j \in stop_inflight : status[j] = "done"
    /\ analog = FrameSum(JobsIn("done"))

\* C15: once a recv of the reader has failed, the running flag is cleared or
\* the device has left the state ON.
C15_RecvFailureSurfaced ==
    main_pc = "RECV_FAILED" => (shared_server_running = 0 \/ dev_state # "ON")

\* C16: a write_analog_img leaves every cell of the analog buffer zero.
C16_ResetZeroesBuffer == [][resets' = resets + 1 => analog' = zeros]_vars

\* C20: at most one task is suspended in a recv on the socket of the last
\* init_device.
C20_OneReaderOnSocket ==
    ~(main_pc \in Awaiting /\ old_pc \in Awaiting /\ old_socket = "CURRENT")

====
